---- MODULE Spec2Model ----
(***************************************************************************)
(* A model of magneto, a serial protocol engine for Magstim TMS            *)
(* stimulators: the codec (utils.py), the frame extractor and transport    *)
(* loop (communication.py) and the session (magstim.py).                   *)
(*                                                                         *)
(* Bytes are naturals 0..255, byte strings are sequences of them.  Time    *)
(* is counted in hundredths of a second.  A Python call that can raise is  *)
(* an operator returning a record whose field exc names the exception      *)
(* ("None" when the call returns).                                         *)
(***************************************************************************)
EXTENDS Integers, Sequences, FiniteSets, TLC

(***************************************************************************)
(* constants.py                                                            *)
(***************************************************************************)
SET_POWER_A == 64
SET_POWER_B == 65
SET_PULSE_INTERVAL == 67
SET_BASE_MODE == 69
GET_PARAMS == 74
GET_VERSION == 78
ENABLE_REMOTE_CTRL == 81
DISABLE_REMOTE_CTRL == 82
ENABLE_HIRES_TIME == 89
DISABLE_HIRES_TIME == 90
PAD_BYTE == 64
INVALID_CMD == 63
INVALID_DATA == 63
SETTINGS_CONFLICT == 83
CRC_ERROR == -1
STATUS_STANDBY == 0
STATUS_ARMED == 1
STATUS_READY == 2
STATUS_COIL_PRESENT == 3
STATUS_REPLACE_COIL == 4
STATUS_ERR == 5
STATUS_ERR_TYPE == 6
STATUS_REMOTE_CTRL == 7
GET_ERR_CODE == 73
GET_SYSTEM_TYPE == 75
GET_SYSTEM_MODE == 88
SET_PULSE_FREQ == 66
SET_PULSE_COUNT == 68
IGNORE_COIL_INTERLOCK == 98
SET_RAPID_DURATION == 91
ENABLE_ENHANCED_POWER == 94
DISABLE_ENHANCED_POWER == 95
GET_RAPID_PARAMS == 92
GET_RAPID_STATUS == 120

\* Python's None: where the other values are strings (an exception's name, a
\* function's name), where they are integers (an error code, a status byte) and
\* where they are records (a Response, a MagstimStatus, a call).
None == "None"
NoneInt == -2
NoneRec == [none |-> TRUE]

(***************************************************************************)
(* Bounds of the model                                                     *)
(***************************************************************************)
\* Longest buffer drawn exhaustively from SampleBytes for the pure functions.
MaxLen == 3
\* The clock stops here.
MaxTime == 110
\* Chunks of bytes the device sends in one run.
MaxSends == 2
\* Public calls the caller makes on the session in one run, connect included.
MaxCalls == 2
\* Commands _send_cmd is called with in one run of it alone.
MaxQueued == 2
\* Frames in a stream fed to the extractor.
MaxFrames == 2

(***************************************************************************)
(* utils.py: the codec                                                     *)
(***************************************************************************)
RECURSIVE SumBytes(_)
SumBytes(s) == IF s = <<>> THEN 0 ELSE Head(s) + SumBytes(Tail(s))

\* str.encode('ascii') of the one-character string chr(cp): code points above
\* 127 have no ASCII encoding and raise.
AsciiEncodeChr(cp) ==
    IF cp < 128 THEN [exc |-> None, val |-> <<cp>>]
    ELSE [exc |-> "UnicodeEncodeError", val |-> <<>>]

\* calculate_crc(cmd), cmd a bytes object: ~bytesum & 0xFF is 255 - bytesum % 256.
calculate_crc(cmd) == AsciiEncodeChr(255 - (SumBytes(cmd) % 256))

\* bytes[:-1]
AllButLast(s) == IF Len(s) = 0 THEN <<>> ELSE SubSeq(s, 1, Len(s) - 1)

\* _check_error(resp): the error code of a response frame, None when it has none.
\* resp[1] of a one-byte frame raises IndexError, the checksum can raise.
_check_error(resp) ==
    IF Len(resp) = 0 THEN [exc |-> "IndexError", err |-> NoneInt]
    ELSE IF resp[1] = INVALID_CMD THEN [exc |-> None, err |-> INVALID_CMD]
    ELSE IF Len(resp) < 2 THEN [exc |-> "IndexError", err |-> NoneInt]
    ELSE IF resp[2] = INVALID_DATA THEN [exc |-> None, err |-> INVALID_DATA]
    ELSE IF resp[2] = SETTINGS_CONFLICT THEN [exc |-> None, err |-> SETTINGS_CONFLICT]
    ELSE LET crc == calculate_crc(AllButLast(resp))
         IN  IF crc.exc # None THEN [exc |-> crc.exc, err |-> NoneInt]
             ELSE IF resp[Len(resp)] # crc.val[1] THEN [exc |-> None, err |-> CRC_ERROR]
             ELSE [exc |-> None, err |-> NoneInt]

(***************************************************************************)
(* communication.py: the frame extractor                                   *)
(***************************************************************************)
RespLenCodes ==
    {SET_POWER_A, SET_POWER_B, SET_PULSE_INTERVAL, SET_BASE_MODE,
     ENABLE_REMOTE_CTRL, DISABLE_REMOTE_CTRL, ENABLE_HIRES_TIME,
     DISABLE_HIRES_TIME, GET_PARAMS}

resp_lengths == [c \in RespLenCodes |-> IF c = GET_PARAMS THEN 12 ELSE 3]

\* raw[:n] and raw[n:]
Take(s, n) == SubSeq(s, 1, IF n < Len(s) THEN n ELSE Len(s))
Drop(s, n) == SubSeq(s, (IF n < Len(s) THEN n ELSE Len(s)) + 1, Len(s))

\* The number of leading bytes _get_resp_bytes splits off, or the exception the
\* index raw[0] (empty buffer) or the lookup resp_lengths[raw[0]] raises.
resp_bytes(raw) ==
    IF Len(raw) = 0 THEN [exc |-> "IndexError", n |-> 0]
    ELSE IF raw[1] = INVALID_CMD THEN [exc |-> None, n |-> 1]
    ELSE IF Len(raw) >= 3 THEN
        IF raw[1] \notin DOMAIN resp_lengths THEN [exc |-> "KeyError", n |-> 0]
        ELSE IF raw[2] = INVALID_DATA \/ raw[2] = SETTINGS_CONFLICT
             THEN [exc |-> None, n |-> 3]
        ELSE IF Len(raw) >= resp_lengths[raw[1]]
             THEN [exc |-> None, n |-> resp_lengths[raw[1]]]
        ELSE [exc |-> None, n |-> 0]
    ELSE [exc |-> None, n |-> 0]

_get_resp_bytes(raw) ==
    LET r == resp_bytes(raw)
    IN  IF r.exc # None THEN [exc |-> r.exc, resp |-> <<>>, buf |-> raw]
        ELSE [exc |-> None, resp |-> Take(raw, r.n), buf |-> Drop(raw, r.n)]


\* bytes.lstrip(b'\x00')
RECURSIVE lstrip_null(_)
lstrip_null(s) == IF s # <<>> /\ Head(s) = 0 THEN lstrip_null(Tail(s)) ELSE s

\* comm_loop's ping_freq and the time.sleep at the end of an iteration.
ping_freq == 50
SleepTime == 5

\* Whether comm_loop pings the unit: no write for longer than ping_freq.
PingDueEarly(now, last) == (now - last) >= 0
PingDueLate(now, last) == (now - last) > 2 * ping_freq
PingDue(now, last) == (now - last) > ping_freq

\* build_command(cmd, data): data is a byte string, <<>> for None (and for "",
\* which is not data either).
build_command_sum(cmd, data) ==
    LET base_cmd == <<cmd>> \o (IF data = <<>> THEN <<PAD_BYTE>> ELSE data)
    IN  [exc |-> None, val |-> Append(base_cmd, SumBytes(base_cmd) % 256)]
build_command(cmd, data) ==
    LET base_cmd == <<cmd>> \o (IF data = <<>> THEN <<PAD_BYTE>> ELSE data)
        crc == calculate_crc(base_cmd)
    IN  IF cmd >= 128 THEN [exc |-> "UnicodeEncodeError", val |-> <<>>]
        ELSE IF crc.exc # None THEN [exc |-> crc.exc, val |-> <<>>]
        ELSE [exc |-> None, val |-> base_cmd \o crc.val]

\* int_to_ascii(num, width) for 0 <= num <= 999 and width 3
int_to_ascii3(num) == <<48 + (num \div 100), 48 + ((num \div 10) % 10), 48 + (num % 10)>>

\* get_mode_byte(setting), as the one-byte string it is sent as
MODE_ARMED == 1
MODE_TRIGGER == 3
MODE_BASE == 6
get_mode_byte(setting) == <<(2 ^ MODE_BASE) + (2 ^ setting)>>

\* Response(raw): the constructor classifies the frame, and raises what
\* _check_error raises.  status is None for a response with an error.
Truthy(v) == v # NoneInt /\ v # 0
Response(raw) ==
    LET e == _check_error(raw)
    IN  IF e.exc # None THEN [exc |-> e.exc, raw |-> raw, err |-> NoneInt]
        ELSE [exc |-> None, raw |-> raw, err |-> e.err]
resp_cmd(resp) == resp.raw[1]
resp_status(resp) == IF Truthy(resp.err) THEN NoneInt ELSE resp.raw[2]

\* MagstimStatus(status) for an int keeps the int.
MagstimStatus(status) == [_status |-> status]

\* int.from_bytes(b, "little")
RECURSIVE int_from_bytes(_)
int_from_bytes(b) == IF b = <<>> THEN 0 ELSE Head(b) + 256 * int_from_bytes(Tail(b))

\* MagstimStatus(status) for a bytes object.
MagstimStatusOfBytes(b) == MagstimStatus(int_from_bytes(b))

\* a & b on naturals
RECURSIVE BitAnd(_, _)
BitAnd(a, b) ==
    IF a = 0 \/ b = 0 THEN 0
    ELSE (a % 2) * (b % 2) + 2 * BitAnd(a \div 2, b \div 2)

\* MagstimStatus._check_bit(bit): bool(self._status & (1 << bit))
_check_bit_unshifted(st, bit) == BitAnd(st._status, bit) # 0
_check_bit(st, bit) == BitAnd(st._status, 2 ^ bit) # 0

\* The properties of a MagstimStatus.
StatusProperties(st) ==
    [standby |-> _check_bit(st, STATUS_STANDBY),
     armed |-> _check_bit(st, STATUS_ARMED),
     ready |-> _check_bit(st, STATUS_READY),
     coil_present |-> _check_bit(st, STATUS_COIL_PRESENT),
     replace_coil |-> _check_bit(st, STATUS_REPLACE_COIL),
     err |-> _check_bit(st, STATUS_ERR),
     fatal_err |-> _check_bit(st, STATUS_ERR_TYPE),
     remote_control |-> _check_bit(st, STATUS_REMOTE_CTRL)]

(***************************************************************************)
(* magstim.py: the session's helpers                                       *)
(***************************************************************************)
\* _log keeps the last 16 packets (their timestamps are not modelled).
LogKeep == 16
_log(log, packet, recieved) ==
    LET l == Append(log, <<recieved, packet>>)
    IN  IF Len(l) > LogKeep THEN SubSeq(l, Len(l) - LogKeep + 1, Len(l)) ELSE l

\* _pump(): pops every queued frame, in order; a frame whose Response cannot be
\* built ends the call with the exception, the frames popped so far are lost
\* with the list, the rest stay queued.  The queue, the cached status and the
\* log after the call, and the list returned.
RECURSIVE pump_from(_, _, _, _)
pump_from(q, status, log, out) ==
    IF q = <<>> THEN [exc |-> None, out |-> out, q |-> q, status |-> status, log |-> log]
    ELSE LET resp == Response(Head(q))
             log2 == _log(log, Head(q), TRUE)
         IN  IF resp.exc # None
             THEN [exc |-> resp.exc, out |-> <<>>, q |-> Tail(q), status |-> status,
                   log |-> log2]
             ELSE pump_from(Tail(q),
                            IF ~Truthy(resp.err) THEN MagstimStatus(resp_status(resp))
                            ELSE status,
                            log2, Append(out, resp))

_pump(q, status, log) == pump_from(q, status, log, <<>>)

\* The scan of _wait_for_reply over one pumped list: the first response that
\* echoes cmd or whose error equals INVALID_CMD, NoneRec when there is none.
RECURSIVE first_match(_, _)
first_match(out, cmd) ==
    IF out = <<>> THEN NoneRec
    ELSE IF resp_cmd(Head(out)) = cmd \/ Head(out).err = INVALID_CMD THEN Head(out)
    ELSE first_match(Tail(out), cmd)

\* utils._validate_response(resp): the exception it raises, None when it returns.
\* The absent reply of a timeout has no attribute err.
utils_validate_response(resp) ==
    IF resp = NoneRec THEN "AttributeError"
    ELSE IF resp.err = INVALID_CMD THEN "CommandError"
    ELSE IF resp.err = INVALID_DATA THEN "DataError"
    ELSE IF resp.err = SETTINGS_CONFLICT THEN "ConfigError"
    ELSE IF resp.err = CRC_ERROR THEN "CRCError"
    ELSE None

\* Magstim._validate_response(resp): a RuntimeError or ValueError is caught to
\* print _get_debug_info(), which reads the attributes of the cached status and
\* so raises AttributeError while no status is cached; then it is raised again.
Caught == {"CommandError", "DataError", "ConfigError", "CRCError"}
_validate_response(resp, status) ==
    LET e == utils_validate_response(resp)
    IN  IF e \in Caught /\ status = NoneRec THEN "AttributeError" ELSE e

\* The exceptions connect's "except ValueError" swallows.
ValueErrors == {"DataError", "ConfigError", "UnicodeEncodeError"}

\* _wait_for_reply's default timeout
timeout == 100

(***************************************************************************)
(* State                                                                   *)
(***************************************************************************)
VARIABLES
    fn,          \* the pure function applied to arg (None before the call)
    arg,         \* its input
    ret,         \* its result
    clock,       \* time.time() / time.monotonic(), in hundredths of a second
    in_waiting,  \* the bytes the device has sent that comm_loop has not read
    nsent,       \* how many chunks the device has sent
    answered,    \* history: the time of the write the device last replied to
    cpc,         \* comm_loop: "off" (no thread), "read", "write", or "dead"
    comm_exc,    \* the exception that ended the comm_loop thread
    buf,         \* comm_loop's serial port input buffer
    last_ping,   \* comm_loop's last_ping
    _from_stim,  \* Magstim._from_stim, comm_loop's q_in
    _to_stim,    \* Magstim._to_stim, comm_loop's q_out
    _com_thread, \* Magstim._com_thread
    _simultaneous, \* Magstim._simultaneous
    _status,     \* Magstim._status
    _debug_log,  \* Magstim._debug_log
    call,        \* the public call in progress and where it stands, or None
    outcome,     \* how the last public call ended
    ncalls,      \* how many public calls were made
    written,     \* history: the last frame written to the connection and when
    gap,         \* history: the time between the last two writes
    nwritten,    \* history: how many frames comm_loop's last iteration wrote
    extracted,   \* history: the frames comm_loop has put on q_in, in order
    obtained,    \* history: the frames of the responses _pump has returned
    did_read     \* history: the last read step of comm_loop read bytes

codec_vars == <<fn, arg, ret>>
device_vars == <<in_waiting, nsent, answered>>
comm_vars == <<cpc, comm_exc, buf, last_ping, written, gap, nwritten, extracted, did_read>>
session_vars == <<_com_thread, _simultaneous, _status, _debug_log, call, outcome,
                  ncalls, obtained>>
system_vars == <<clock, device_vars, comm_vars, _from_stim, _to_stim, session_vars>>
vars == <<codec_vars, system_vars>>

(***************************************************************************)
(* The device                                                              *)
(***************************************************************************)
\* What the device sends in one piece: a reply without an error, the error
\* replies, a reply with a wrong checksum, a reply whose checksum is above
\* 0x7f, an idle-fill byte, and a reply in two pieces.
Q_OK == <<81, 138, 36>>
E_CONFLICT == <<69, 83, 103>>
A_BADDATA == <<64, 63, 111>>
BADCMD == <<63>>
Q_BADCRC == <<81, 138, 48>>
Q_HIGHCRC == <<81, 9, 165>>
DeviceChunks ==
    {Q_OK, E_CONFLICT, A_BADDATA, BADCMD, Q_BADCRC, Q_HIGHCRC,
     <<0>>, <<81, 138>>, <<36>>}

\* (Nothing reads the port before the thread starts or after it has ended.)
device_send(chunk) ==
    /\ cpc \in {"read", "write"}
    /\ nsent < MaxSends
    /\ in_waiting' = in_waiting \o chunk
    /\ nsent' = nsent + 1
    /\ UNCHANGED <<answered, codec_vars, clock, comm_vars, _from_stim, _to_stim, session_vars>>

(***************************************************************************)
(* communication.py: comm_loop                                             *)
(***************************************************************************)
ctrl_cmd == build_command(ENABLE_REMOTE_CTRL, <<>>).val

\* Lines 140-146: read what is waiting, strip leading nulls, extract once.
comm_read ==
    /\ cpc = "read"
    /\ UNCHANGED <<codec_vars, clock, nsent, answered, last_ping, written, gap, nwritten,
                   _to_stim,
                   session_vars>>
    /\ IF Len(in_waiting) > 0
       THEN LET r == _get_resp_bytes(buf \o lstrip_null(in_waiting))
            IN  /\ in_waiting' = <<>>
                /\ buf' = r.buf
                /\ IF r.exc # None
                   THEN /\ cpc' = "dead"
                        /\ comm_exc' = r.exc
                        /\ did_read' = FALSE
                        /\ UNCHANGED <<_from_stim, extracted>>
                   ELSE /\ cpc' = "write"
                        /\ did_read' = TRUE
                        /\ IF Len(r.resp) > 0
                           THEN /\ _from_stim' = Append(_from_stim, r.resp)
                                /\ extracted' = Append(extracted, r.resp)
                           ELSE UNCHANGED <<_from_stim, extracted>>
                        /\ UNCHANGED comm_exc
       ELSE /\ cpc' = "write"
            /\ did_read' = FALSE
            /\ UNCHANGED <<in_waiting, buf, comm_exc, _from_stim, extracted>>

\* Lines 148-160: write a queued command and set last_ping, then write a ping
\* when one is due by the last_ping of that moment, then sleep.
comm_write ==
    /\ cpc = "write"
    /\ clock + SleepTime <= MaxTime
    /\ LET now == clock
           sent == _to_stim # <<>>
           last == IF sent THEN now ELSE last_ping
           written1 == IF sent
                       THEN [frame |-> Head(_to_stim), t |-> now, ping |-> FALSE]
                       ELSE written
           gap1 == IF ~sent THEN gap
                   ELSE IF written = NoneRec THEN 0 ELSE now - written.t
           ping == PingDue(now, last)
       IN  /\ _to_stim' = IF sent THEN Tail(_to_stim) ELSE _to_stim
           /\ last_ping' = IF ping THEN now ELSE last
           /\ written' = IF ping THEN [frame |-> ctrl_cmd, t |-> now, ping |-> TRUE]
                         ELSE written1
           /\ gap' = IF ~ping THEN gap1
                     ELSE IF written1 = NoneRec THEN 0 ELSE now - written1.t
           /\ nwritten' = (IF sent THEN 1 ELSE 0) + (IF ping THEN 1 ELSE 0)
    /\ clock' = clock + SleepTime
    /\ cpc' = "read"
    /\ UNCHANGED <<codec_vars, device_vars, comm_exc, buf, extracted, did_read,
                   _from_stim, session_vars>>

\* The serial port fails (comm.in_waiting raises): the exception ends the
\* thread.
comm_fail ==
    /\ cpc = "read"
    /\ cpc' = "dead"
    /\ comm_exc' = "SerialException"
    /\ UNCHANGED <<codec_vars, clock, device_vars, buf, last_ping, written, gap, nwritten,
                   extracted, did_read, _from_stim, _to_stim, session_vars>>

\* comm.write(cmd) fails (the port is gone, or the write times out): the command
\* was taken off the queue, the exception ends the thread.
comm_write_fail ==
    /\ cpc = "write"
    /\ _to_stim # <<>>
    /\ _to_stim' = Tail(_to_stim)
    /\ cpc' = "dead"
    /\ comm_exc' = "SerialException"
    /\ UNCHANGED <<codec_vars, clock, device_vars, buf, last_ping, written, gap, nwritten,
                   extracted, did_read, _from_stim, session_vars>>

\* Time passes while no comm_loop thread sleeps.  Only _wait_for_reply reads
\* the clock then, and nothing changes before its timeout: one step takes the
\* clock there.
Tick ==
    /\ cpc = "dead"
    /\ call # NoneRec
    /\ clock < call.start + timeout
    /\ call.start + timeout <= MaxTime
    /\ clock' = call.start + timeout
    /\ UNCHANGED <<codec_vars, device_vars, comm_vars, _from_stim, _to_stim, session_vars>>

(***************************************************************************)
(* magstim.py: the session's calls                                         *)
(***************************************************************************)
frames(out) == [i \in 1..Len(out) |-> out[i].raw]

\* A public call returns or raises.  What is kept of it: its last command, how
\* its last _wait_for_reply ended ("none" when none began, "matched", "timeout",
\* or "raised" when _pump raised in it), the reply that one returned, the frames
\* it pumped, the exception the call raised and the status byte it returned.
EndCall(op, cmd, wait, reply, seen, exc, value) ==
    /\ call' = NoneRec
    /\ outcome' = [op |-> op, cmd |-> cmd, wait |-> wait, reply |-> reply,
                   seen |-> seen, exc |-> exc, value |-> value]

\* _send_cmd(cmd, data) and the start of _wait_for_reply(cmd), with the thread,
\* the log and the queue as the call finds them.
SendAndWait(op, phase, cmd, data, thread, log) ==
    LET cmd_bytes == build_command(cmd, data)
    IN  IF thread = None
        THEN /\ EndCall(op, cmd, "none", NoneRec, <<>>, "RuntimeError", NoneInt)
             /\ _debug_log' = log
             /\ UNCHANGED _to_stim
        ELSE IF cmd_bytes.exc # None
        THEN /\ EndCall(op, cmd, "none", NoneRec, <<>>, cmd_bytes.exc, NoneInt)
             /\ _debug_log' = log
             /\ UNCHANGED _to_stim
        ELSE /\ _to_stim' = Append(_to_stim, cmd_bytes.val)
             /\ _debug_log' = _log(log, cmd_bytes.val, FALSE)
             /\ call' = [op |-> op, phase |-> phase, cmd |-> cmd, start |-> clock,
                         seen |-> <<>>]
             /\ UNCHANGED outcome

\* _enable_remote_control(): flush the inbound queue, then _communicate.
EnableRemoteControl(op, thread) ==
    LET p == _pump(_from_stim, _status, _debug_log)
    IN  /\ _from_stim' = p.q
        /\ _status' = p.status
        /\ obtained' = obtained \o frames(p.out)
        /\ IF p.exc # None
           THEN /\ EndCall(op, ENABLE_REMOTE_CTRL, "none", NoneRec, <<>>, p.exc, NoneInt)
                /\ _debug_log' = p.log
                /\ UNCHANGED _to_stim
           ELSE SendAndWait(op, 1, ENABLE_REMOTE_CTRL, <<>>, thread, p.log)

\* connect(): start the comm_loop thread, enable remote control, and then (a
\* later step) set the pulse interval.  A second connect is not modelled.
connect ==
    /\ call = NoneRec
    /\ ncalls < MaxCalls
    /\ _com_thread = None
    /\ ncalls' = ncalls + 1
    /\ _com_thread' = "Thread"
    /\ cpc' = "read"
    /\ last_ping' = clock
    /\ buf' = <<>>
    /\ EnableRemoteControl("connect", "Thread")
    /\ UNCHANGED <<codec_vars, clock, device_vars, comm_exc, written, gap, nwritten, extracted,
                   did_read, _simultaneous>>

enable_remote_control ==
    /\ call = NoneRec
    /\ ncalls < MaxCalls
    /\ ncalls' = ncalls + 1
    /\ EnableRemoteControl("_enable_remote_control", _com_thread)
    /\ UNCHANGED <<codec_vars, clock, device_vars, comm_vars, _com_thread, _simultaneous>>

\* The callers of _communicate: arm() and set_power(50).
Commands ==
    {<<SET_BASE_MODE, get_mode_byte(MODE_ARMED)>>, <<SET_POWER_A, int_to_ascii3(50)>>}

communicate(cmd, data) ==
    /\ call = NoneRec
    /\ ncalls < MaxCalls
    /\ ncalls' = ncalls + 1
    /\ SendAndWait("_communicate", 1, cmd, data, _com_thread, _debug_log)
    /\ UNCHANGED <<codec_vars, clock, device_vars, comm_vars, _from_stim, _com_thread,
                   _simultaneous, _status, obtained>>

\* The status property: pump, then the cached status.
status ==
    /\ call = NoneRec
    /\ ncalls < MaxCalls
    /\ ncalls' = ncalls + 1
    /\ LET p == _pump(_from_stim, _status, _debug_log)
       IN  /\ _from_stim' = p.q
           /\ _status' = p.status
           /\ _debug_log' = p.log
           /\ obtained' = obtained \o frames(p.out)
           /\ EndCall("status", NoneInt, "none", NoneRec, <<>>, p.exc, NoneInt)
    /\ UNCHANGED <<codec_vars, clock, device_vars, comm_vars, _to_stim, _com_thread,
                   _simultaneous>>

\* The armed and ready properties begin with _send_cmd(ENABLE_REMOTE_CTRL); the
\* flush and the wait are later steps of the caller's thread (phase 0: the
\* flush is still to come).
ArmedOps == {"armed", "ready"}

armed_send(op) ==
    /\ call = NoneRec
    /\ ncalls < MaxCalls
    /\ ncalls' = ncalls + 1
    /\ SendAndWait(op, 0, ENABLE_REMOTE_CTRL, <<>>, _com_thread, _debug_log)
    /\ UNCHANGED <<codec_vars, clock, device_vars, comm_vars, _from_stim, _com_thread,
                   _simultaneous, _status, obtained>>

\* self._pump(), the flush, and the entry of _wait_for_reply, which reads the
\* clock.
armed_flush ==
    /\ call # NoneRec
    /\ call.phase = 0
    /\ LET p == _pump(_from_stim, _status, _debug_log)
       IN  /\ _from_stim' = p.q
           /\ _status' = p.status
           /\ _debug_log' = p.log
           /\ obtained' = obtained \o frames(p.out)
           /\ IF p.exc # None
              THEN EndCall(call.op, call.cmd, "none", NoneRec, <<>>, p.exc, NoneInt)
              ELSE /\ call' = [call EXCEPT !.phase = 1, !.start = clock]
                   /\ UNCHANGED outcome
    /\ UNCHANGED <<codec_vars, clock, device_vars, comm_vars, _to_stim, _com_thread,
                   _simultaneous, ncalls>>

\* What follows _wait_for_reply in the call in progress: the validation of the
\* reply, and for connect the next command or the swallowed ValueError.
AfterWait(reply, seen, status_now, log) ==
    LET e == _validate_response(reply, status_now)
        value == IF e # None THEN NoneInt
                 ELSE IF call.op = "armed"
                 THEN _check_bit(status_now, STATUS_ARMED)
                      \/ _check_bit(status_now, STATUS_READY)
                 ELSE IF call.op = "ready" THEN _check_bit(status_now, STATUS_READY)
                 ELSE resp_status(reply)
        interval == int_to_ascii3(IF _simultaneous THEN 0 ELSE 10)
    IN  IF call.op = "connect" /\ call.phase = 1 /\ e = None
        THEN SendAndWait("connect", 2, SET_PULSE_INTERVAL, interval, _com_thread, log)
        ELSE IF call.op = "connect" /\ call.phase = 2 /\ e = None /\ ~_simultaneous
        THEN SendAndWait("connect", 3, SET_POWER_B, int_to_ascii3(0), _com_thread, log)
        ELSE /\ EndCall(call.op, call.cmd,
                        IF reply = NoneRec THEN "timeout" ELSE "matched", reply, seen,
                        IF call.op = "connect" /\ call.phase > 1 /\ e \in ValueErrors
                        THEN None ELSE e,
                        value)
             /\ _debug_log' = log
             /\ UNCHANGED _to_stim

\* One turn of the loop of _wait_for_reply: while the timeout has not elapsed,
\* pump and scan; once it has, return None.
wait_for_reply ==
    /\ call # NoneRec
    /\ call.phase > 0
    /\ UNCHANGED <<codec_vars, clock, device_vars, comm_vars, _com_thread,
                   _simultaneous, ncalls>>
    /\ IF (clock - call.start) < timeout
       THEN LET p == _pump(_from_stim, _status, _debug_log)
                resp == first_match(p.out, call.cmd)
                seen == call.seen \o frames(p.out)
            IN  /\ _from_stim' = p.q
                /\ _status' = p.status
                /\ obtained' = obtained \o frames(p.out)
                /\ IF p.exc # None
                   THEN /\ EndCall(call.op, call.cmd, "raised", NoneRec, seen,
                                   IF call.op = "connect" /\ call.phase > 1
                                      /\ p.exc \in ValueErrors
                                   THEN None ELSE p.exc,
                                   NoneInt)
                        /\ _debug_log' = p.log
                        /\ UNCHANGED _to_stim
                   ELSE IF resp = NoneRec
                   THEN /\ call' = [call EXCEPT !.seen = seen]
                        /\ _debug_log' = p.log
                        /\ UNCHANGED <<outcome, _to_stim>>
                   ELSE AfterWait(resp, seen, p.status, p.log)
       ELSE /\ AfterWait(NoneRec, call.seen, _status, _debug_log)
            /\ UNCHANGED <<_from_stim, _status, obtained>>

(***************************************************************************)
(* The system                                                              *)
(***************************************************************************)
CodecIdle == fn = None /\ arg = <<>> /\ ret = NoneRec

Init ==
    /\ CodecIdle
    /\ clock = 0
    /\ in_waiting = <<>>
    /\ nsent = 0
    /\ answered = NoneInt
    /\ cpc = "off"
    /\ comm_exc = None
    /\ buf = <<>>
    /\ last_ping = 0
    /\ _from_stim = <<>>
    /\ _to_stim = <<>>
    /\ _com_thread = None
    /\ _simultaneous \in BOOLEAN
    /\ _status = NoneRec
    /\ _debug_log = <<>>
    /\ call = NoneRec
    /\ outcome = NoneRec
    /\ ncalls = 0
    /\ written = NoneRec
    /\ gap = 0
    /\ nwritten = 0
    /\ extracted = <<>>
    /\ obtained = <<>>
    /\ did_read = FALSE

Next ==
    \/ \E chunk \in DeviceChunks : device_send(chunk)
    \/ comm_read
    \/ comm_write
    \/ comm_fail
    \/ comm_write_fail
    \/ Tick
    \/ connect
    \/ enable_remote_control
    \/ \E c \in Commands : communicate(c[1], c[2])
    \/ status
    \/ wait_for_reply

Spec == Init /\ [][Next]_vars

\* The same with the scheduling the threads have: the comm_loop thread, while it
\* lives, takes its next step; the caller's thread goes on with the loop of
\* _wait_for_reply; time passes.
LiveSpec ==
    /\ Spec
    /\ WF_vars(comm_read)
    /\ WF_vars(comm_write)
    /\ WF_vars(wait_for_reply)
    /\ WF_vars(Tick)

(***************************************************************************)
(* The pure functions on drawn inputs                                      *)
(***************************************************************************)
\* '\0', '$', '?', 'J', 'N' (a code with no table entry), 'Q', 'S', 0x8a
SampleBytes == {0, 36, 63, 74, 78, 81, 83, 138}

RECURSIVE SeqsUpTo(_, _)
SeqsUpTo(S, n) ==
    IF n = 0 THEN {<<>>}
    ELSE LET shorter == SeqsUpTo(S, n - 1)
         IN  shorter \cup {Append(s, b) : s \in {t \in shorter : Len(t) = n - 1}, b \in S}

\* A complete get-parameters reply (12 bytes), the same cut short, the same
\* followed by the first byte of the next frame, and after a short error frame.
ParamsFrame == <<74, 138, 48, 53, 48, 48, 48, 48, 48, 48, 48, 102>>
LongBuffers ==
    {ParamsFrame, AllButLast(ParamsFrame), Append(ParamsFrame, 81),
     <<74, 63, 117>> \o ParamsFrame}

Buffers == SeqsUpTo(SampleBytes, MaxLen) \cup LongBuffers

\* Streams of complete frames: a reply without an error, each error reply, an
\* invalid-data reply to GET_VERSION (N?r), a reply with a checksum above 0x7f
\* and a get-parameters reply, up to MaxFrames of them one after the other.
StreamFrames ==
    {Q_OK, E_CONFLICT, A_BADDATA, BADCMD, Q_HIGHCRC, <<78, 63, 114>>, ParamsFrame}

RECURSIVE StreamsOf(_)
StreamsOf(n) ==
    IF n = 0 THEN {<<>>}
    ELSE {f \o s : f \in StreamFrames, s \in StreamsOf(n - 1)}

Streams == UNION {StreamsOf(n) : n \in 1..MaxFrames}

\* Every status byte, as the one-byte string MagstimStatus is built from.
StatusBytes == {<<v>> : v \in 0..255}

\* _get_resp_bytes applied to its own leftover until it returns no frame (or
\* raises): the frames split off, in order, and the final leftover.
RECURSIVE extract_all(_, _)
extract_all(raw, out) ==
    LET r == _get_resp_bytes(raw)
    IN  IF r.exc # None THEN [exc |-> r.exc, frames |-> out, buf |-> raw]
        ELSE IF r.resp = <<>> THEN [exc |-> None, frames |-> out, buf |-> r.buf]
        ELSE extract_all(r.buf, Append(out, r.resp))

\* The same on a stream that arrives in two parts, the second appended to the
\* leftover of the first (buf += new_bytes).
extract_split(raw, k) ==
    LET first == extract_all(Take(raw, k), <<>>)
    IN  IF first.exc # None THEN first
        ELSE extract_all(first.buf \o Drop(raw, k), first.frames)

SystemIdle ==
    /\ clock = 0
    /\ in_waiting = <<>>
    /\ nsent = 0
    /\ answered = NoneInt
    /\ cpc = "off"
    /\ comm_exc = None
    /\ buf = <<>>
    /\ last_ping = 0
    /\ _from_stim = <<>>
    /\ _to_stim = <<>>
    /\ _com_thread = None
    /\ _simultaneous = TRUE
    /\ _status = NoneRec
    /\ _debug_log = <<>>
    /\ call = NoneRec
    /\ outcome = NoneRec
    /\ ncalls = 0
    /\ written = NoneRec
    /\ gap = 0
    /\ nwritten = 0
    /\ extracted = <<>>
    /\ obtained = <<>>
    /\ did_read = FALSE

CodecInit ==
    /\ fn = None
    /\ arg \in Buffers \cup Streams \cup StatusBytes
    /\ ret = NoneRec
    /\ SystemIdle

apply_get_resp_bytes ==
    /\ fn = None
    /\ fn' = "_get_resp_bytes"
    /\ ret' = _get_resp_bytes(arg)
    /\ UNCHANGED <<arg, system_vars>>

apply_calculate_crc ==
    /\ fn = None
    /\ fn' = "calculate_crc"
    /\ ret' = calculate_crc(arg)
    /\ UNCHANGED <<arg, system_vars>>

apply_check_error ==
    /\ fn = None
    /\ fn' = "_check_error"
    /\ ret' = _check_error(arg)
    /\ UNCHANGED <<arg, system_vars>>

apply_extract_split(k) ==
    /\ fn = None
    /\ arg \in Streams
    /\ fn' = "extract_split"
    /\ ret' = [k |-> k, whole |-> extract_all(arg, <<>>), split |-> extract_split(arg, k)]
    /\ UNCHANGED <<arg, system_vars>>

apply_MagstimStatus ==
    /\ fn = None
    /\ Len(arg) = 1
    /\ fn' = "MagstimStatus"
    /\ ret' = StatusProperties(MagstimStatusOfBytes(arg))
    /\ UNCHANGED <<arg, system_vars>>

CodecNext ==
    \/ apply_get_resp_bytes
    \/ apply_calculate_crc
    \/ apply_check_error
    \/ \E k \in 0..Len(arg) : apply_extract_split(k)
    \/ apply_MagstimStatus

CodecSpec == CodecInit /\ [][CodecNext]_vars

(***************************************************************************)
(* _send_cmd on the commands of the registry                               *)
(***************************************************************************)
\* constants.py's command codes.
Registry ==
    {SET_POWER_A, SET_BASE_MODE, ENABLE_REMOTE_CTRL, DISABLE_REMOTE_CTRL, GET_PARAMS,
     GET_VERSION, GET_ERR_CODE, GET_SYSTEM_TYPE, GET_SYSTEM_MODE, SET_POWER_B,
     SET_PULSE_INTERVAL, ENABLE_HIRES_TIME, DISABLE_HIRES_TIME, SET_PULSE_FREQ,
     SET_PULSE_COUNT, IGNORE_COIL_INTERLOCK, SET_RAPID_DURATION,
     ENABLE_ENHANCED_POWER, DISABLE_ENHANCED_POWER, GET_RAPID_PARAMS, GET_RAPID_STATUS}

\* The data the session's methods send: a power level 0..100 in 3 digits, a
\* pulse interval 0..999 in 3 digits, a mode byte (disarm, arm, fire).
PowerLevels == 0..100
PulseIntervals == {0, 1, 10, 99, 100, 500, 999}
ModeSettings == {0, MODE_ARMED, MODE_TRIGGER}

\* <<cmd, data>>, data <<>> for a command sent without data.
CommandInputs ==
    {<<c, <<>>>> : c \in Registry}
    \cup {<<c, int_to_ascii3(v)>> : c \in {SET_POWER_A, SET_POWER_B}, v \in PowerLevels}
    \cup {<<SET_PULSE_INTERVAL, int_to_ascii3(v)>> : v \in PulseIntervals}
    \cup {<<SET_BASE_MODE, get_mode_byte(m)>> : m \in ModeSettings}

\* A session whose comm_loop thread is not running: as constructed, or with
\* _com_thread set as a connected session has it.
SendInit ==
    /\ CodecIdle
    /\ clock = 0
    /\ in_waiting = <<>>
    /\ nsent = 0
    /\ answered = NoneInt
    /\ cpc = "off"
    /\ comm_exc = None
    /\ buf = <<>>
    /\ last_ping = 0
    /\ _from_stim = <<>>
    /\ _to_stim = <<>>
    /\ _com_thread \in {None, "Thread"}
    /\ _simultaneous = TRUE
    /\ _status = NoneRec
    /\ _debug_log = <<>>
    /\ call = NoneRec
    /\ outcome = NoneRec
    /\ ncalls = 0
    /\ written = NoneRec
    /\ gap = 0
    /\ nwritten = 0
    /\ extracted = <<>>
    /\ obtained = <<>>
    /\ did_read = FALSE

\* _send_cmd without the test of the thread: it queues and logs whatever the
\* session's state.
_send_cmd_unchecked(cmd, data) ==
    /\ ncalls < MaxQueued
    /\ ncalls' = ncalls + 1
    /\ fn' = "_send_cmd"
    /\ arg' = <<cmd>> \o data
    /\ LET cmd_bytes == build_command(cmd, data)
       IN  IF cmd_bytes.exc # None
           THEN /\ ret' = [exc |-> cmd_bytes.exc]
                /\ UNCHANGED <<_debug_log, _to_stim>>
           ELSE /\ ret' = [exc |-> None]
                /\ _debug_log' = _log(_debug_log, cmd_bytes.val, FALSE)
                /\ _to_stim' = Append(_to_stim, cmd_bytes.val)
    /\ UNCHANGED <<clock, device_vars, comm_vars, _from_stim, _com_thread,
                   _simultaneous, _status, call, outcome, obtained>>

\* _send_cmd(cmd, data): arg keeps <<cmd>> \o data, ret the exception.
_send_cmd(cmd, data) ==
    /\ ncalls < MaxQueued
    /\ ncalls' = ncalls + 1
    /\ fn' = "_send_cmd"
    /\ arg' = <<cmd>> \o data
    /\ LET cmd_bytes == build_command(cmd, data)
       IN  IF _com_thread = None
           THEN /\ ret' = [exc |-> "RuntimeError"]
                /\ UNCHANGED <<_debug_log, _to_stim>>
           ELSE IF cmd_bytes.exc # None
           THEN /\ ret' = [exc |-> cmd_bytes.exc]
                /\ UNCHANGED <<_debug_log, _to_stim>>
           ELSE /\ ret' = [exc |-> None]
                /\ _debug_log' = _log(_debug_log, cmd_bytes.val, FALSE)
                /\ _to_stim' = Append(_to_stim, cmd_bytes.val)
    /\ UNCHANGED <<clock, device_vars, comm_vars, _from_stim, _com_thread,
                   _simultaneous, _status, call, outcome, obtained>>

SendNext == \E c \in CommandInputs : _send_cmd(c[1], c[2])

SendSpec == SendInit /\ [][SendNext]_vars

(***************************************************************************)
(* armed and ready with a device that replies to what is written           *)
(***************************************************************************)
\* The device replies to the frame last written, once: it echoes the command
\* code with the status 0x8a and the checksum.
reply_to(frame) ==
    LET b == <<frame[1], 138>>
    IN  Append(b, 255 - (SumBytes(b) % 256))

device_reply ==
    /\ cpc \in {"read", "write"}
    /\ written # NoneRec
    /\ written.t > answered
    /\ answered' = written.t
    /\ in_waiting' = in_waiting \o reply_to(written.frame)
    /\ UNCHANGED <<codec_vars, clock, nsent, comm_vars, _from_stim, _to_stim,
                   session_vars>>

ArmedNext ==
    \/ connect
    \/ \E op \in ArmedOps : armed_send(op)
    \/ armed_flush
    \/ wait_for_reply
    \/ comm_read
    \/ comm_write
    \/ device_reply

ArmedSpec == Init /\ [][ArmedNext]_vars

(***************************************************************************)
(* comm_loop fed a stream of frames in reads of any size                   *)
(***************************************************************************)
\* Replies to enable-remote-control without an error: status 0x8a, status 0x00
\* (checksum 0xae), and status 0xae (checksum 0x00).
FedFrames == {<<81, 138, 36>>, <<81, 0, 174>>, <<81, 174, 0>>}

RECURSIVE FedStreamsOf(_)
FedStreamsOf(n) ==
    IF n = 0 THEN {<<>>}
    ELSE {f \o s : f \in FedFrames, s \in FedStreamsOf(n - 1)}

\* arg is what the device has still to send, ret keeps the whole stream.
ReadInit ==
    /\ fn = None
    /\ arg \in UNION {FedStreamsOf(n) : n \in 1..MaxFrames}
    /\ ret = [stream |-> arg]
    /\ SystemIdle

\* The next k bytes of the stream reach the port.
device_feed(k) ==
    /\ cpc \in {"read", "write"}
    /\ k <= Len(arg)
    /\ in_waiting' = in_waiting \o Take(arg, k)
    /\ arg' = Drop(arg, k)
    /\ UNCHANGED <<fn, ret, clock, nsent, answered, comm_vars, _from_stim, _to_stim,
                   session_vars>>

ReadNext ==
    \/ connect
    \/ \E k \in 1..(3 * MaxFrames) : device_feed(k)
    \/ comm_read
    \/ comm_write

ReadSpec == ReadInit /\ [][ReadNext]_vars

(***************************************************************************)
(* The claims                                                              *)
(***************************************************************************)
\* A complete frame at the head of a buffer, as the protocol defines one: the
\* one-byte unrecognized-command signal, a three-byte frame whose second byte
\* is the invalid-data or the settings-conflict signal, or as many bytes as
\* the table gives for the first byte.
HasCompleteFrame(b) ==
    /\ b # <<>>
    /\ \/ b[1] = INVALID_CMD
       \/ /\ Len(b) >= 3
          /\ \/ b[2] \in {INVALID_DATA, SETTINGS_CONFLICT}
             \/ b[1] \in DOMAIN resp_lengths /\ Len(b) >= resp_lengths[b[1]]

\* C1: when a read step of comm_loop that read bytes has ended, the receive
\* buffer holds no complete frame, however many frames arrived in the read.
C1_NoCompleteFrameAfterRead ==
    (cpc = "write" /\ did_read) => ~HasCompleteFrame(buf)

\* The kind of a reply by the shape of its frame: the exception of the error
\* taxonomy it stands for, None for a reply without an error.
FrameKind(raw) ==
    IF raw[1] = 63 THEN "CommandError"
    ELSE IF Len(raw) >= 2 /\ raw[2] = 63 THEN "DataError"
    ELSE IF Len(raw) >= 2 /\ raw[2] = 83 THEN "ConfigError"
    ELSE IF raw[Len(raw)] # 255 - (SumBytes(AllButLast(raw)) % 256) THEN "CRCError"
    ELSE None

\* The calls that are _communicate and no more.
CommunicateOps == {"_communicate", "_enable_remote_control"}

\* C2: the Response _wait_for_reply(cmd) returns echoes cmd or is an
\* unrecognized-command reply; a reply to another command that signals invalid
\* data or a settings conflict is never returned.
C2_ReplyEchoesOrUnrecognized ==
    (outcome # NoneRec /\ outcome.wait = "matched") =>
        \/ outcome.reply.raw[1] = outcome.cmd
        \/ FrameKind(outcome.reply.raw) = "CommandError"

\* C3: _communicate raises the typed error of the matched reply's kind, one per
\* kind, and returns the status byte only when the reply has no error.
C3_TypedErrorPerKind ==
    (outcome # NoneRec /\ outcome.op \in CommunicateOps /\ outcome.wait = "matched") =>
        /\ outcome.exc = FrameKind(outcome.reply.raw)
        /\ outcome.exc = None => outcome.value = outcome.reply.raw[2]
        /\ outcome.exc # None => outcome.value = NoneInt

\* C4: when _wait_for_reply times out, _communicate fails with the error of the
\* no-reply kind and returns no status.
C4_TimeoutRaisesNoReply ==
    (outcome # NoneRec /\ outcome.op \in CommunicateOps /\ outcome.wait = "timeout") =>
        /\ outcome.exc = "NoReply"
        /\ outcome.value = NoneInt

\* What the protocol gives as the length of the frame at the head of a buffer.
FrameLen(raw) ==
    IF raw[1] = 63 THEN 1
    ELSE IF Len(raw) >= 2 /\ raw[2] \in {63, 83} THEN 3
    ELSE IF raw[1] \in DOMAIN resp_lengths THEN resp_lengths[raw[1]]
    ELSE 0

\* C5: for every buffer _get_resp_bytes returns (frame, rest) with frame ++ rest
\* the buffer and frame empty or exactly one complete frame.
C5_SplitsOffOneFrame ==
    fn = "_get_resp_bytes" =>
        /\ ret.exc = None
        /\ ret.resp \o ret.buf = arg
        /\ ret.resp = <<>> \/ Len(ret.resp) = FrameLen(arg)

\* C6: for a buffer of at least 3 bytes whose first byte is not the
\* unrecognized-command signal and whose second byte is the invalid-data or the
\* settings-conflict signal, _get_resp_bytes returns the first 3 bytes without
\* raising, whether or not the table has an entry for the first byte.
C6_ShortErrorFrameIsThreeBytes ==
    (fn = "_get_resp_bytes" /\ Len(arg) >= 3 /\ arg[1] # 63 /\ arg[2] \in {63, 83}) =>
        /\ ret.exc = None
        /\ ret.resp = SubSeq(arg, 1, 3)
        /\ ret.buf = SubSeq(arg, 4, Len(arg))

\* C7: the frames of the Responses the _pump calls have returned, followed by
\* the frames still queued, are the frames comm_loop extracted, in order.
C7_PumpedAreExtractedInOrder ==
    obtained \o _from_stim = extracted

FirstEcho(seen, cmd) ==
    IF \E i \in 1..Len(seen) : seen[i][1] = cmd
    THEN CHOOSE i \in 1..Len(seen) :
            seen[i][1] = cmd /\ \A j \in 1..(i - 1) : seen[j][1] # cmd
    ELSE 0

\* C9: when replies for other command codes precede a reply that echoes cmd
\* among the frames _wait_for_reply(cmd) pumps, the reply that echoes cmd is the
\* one returned.
C9_EchoReturnedPastOtherReplies ==
    (/\ outcome # NoneRec
     /\ FirstEcho(outcome.seen, outcome.cmd) > 0
     /\ \A j \in 1..(FirstEcho(outcome.seen, outcome.cmd) - 1) : outcome.seen[j][1] # 63) =>
        /\ outcome.wait = "matched"
        /\ outcome.reply.raw = outcome.seen[FirstEcho(outcome.seen, outcome.cmd)]

\* C10: calculate_crc returns the one byte 255 - (sum mod 256) for every byte
\* string, whatever the value of that byte.
C10_CrcIsOnesComplement ==
    fn = "calculate_crc" =>
        /\ ret.exc = None
        /\ ret.val = <<255 - (SumBytes(arg) % 256)>>

\* A byte string that is exactly one response frame of the protocol.
IsFrame(raw) == HasCompleteFrame(raw) /\ Len(raw) = FrameLen(raw)

\* The error value that stands for each kind of reply.
KindCode(kind) ==
    CASE kind = "CommandError" -> INVALID_CMD
      [] kind = "DataError" -> INVALID_DATA
      [] kind = "ConfigError" -> SETTINGS_CONFLICT
      [] kind = "CRCError" -> CRC_ERROR
      [] OTHER -> NoneInt

\* C11: for every response frame _check_error returns the error value of the
\* frame's kind, the kinds taken in priority order (unrecognized command,
\* invalid data, settings conflict, checksum mismatch, none), and the value
\* returned is the value of no frame of another kind.
C11_OneErrorByPriority ==
    (fn = "_check_error" /\ IsFrame(arg)) =>
        /\ ret.exc = None
        /\ ret.err = KindCode(FrameKind(arg))
        /\ \A other \in {b \in Buffers : IsFrame(b)} :
              (_check_error(other).exc = None /\ _check_error(other).err = ret.err)
                  => FrameKind(other) = FrameKind(arg)

\* The frame of a command by the protocol: the code, the data or the pad byte
\* 0x40, and the complement of their sum's low byte.
ExpectedFrame(a) ==
    LET body == IF Len(a) = 1 THEN Append(a, 64) ELSE a
    IN  Append(body, 255 - (SumBytes(body) % 256))

Drained == SubSeq(extracted, 1, Len(extracted) - Len(_from_stim))

\* The positions of the frames of a sequence that carry no error.
NonError(d) == {i \in 1..Len(d) : FrameKind(d[i]) = None}

\* The greatest element of a non-empty set of naturals.
Latest(S) == CHOOSE i \in S : \A j \in S : j <= i

\* C13: between _pump calls the cached status is the status byte of the latest
\* drained frame that carries no error, and is unset when none was drained;
\* draining a frame that carries an error leaves it as it was.
C13_StatusIsLatestNonError ==
    IF NonError(Drained) = {} THEN _status = NoneRec
    ELSE _status = [_status |-> Drained[Latest(NonError(Drained))][2]]

\* C14: a stream of complete frames fed to _get_resp_bytes in two parts, at any
\* split point, comes out as the same frames and the same empty leftover as the
\* whole stream fed at once.
C14_SplitFeedSameFrames ==
    fn = "extract_split" =>
        /\ ret.whole.exc = None
        /\ ret.split.exc = None
        /\ ret.split.frames = ret.whole.frames
        /\ ret.whole.buf = <<>>
        /\ ret.split.buf = <<>>

\* C15: a read step of comm_loop that reads only null padding while the
\* receive buffer is empty hands _get_resp_bytes the empty buffer, which returns
\* no frame and the buffer as it was: the loop goes on, nothing is queued.
C15_EmptyBufferReturnsNoFrame ==
    [][(/\ cpc = "read"
        /\ in_waiting # <<>>
        /\ in_waiting' = <<>>
        /\ buf \o lstrip_null(in_waiting) = <<>>)
       => (/\ _get_resp_bytes(<<>>) = [exc |-> None, resp |-> <<>>, buf |-> <<>>]
           /\ cpc' = "write"
           /\ comm_exc' = None
           /\ buf' = <<>>
           /\ _from_stim' = _from_stim)]_vars

\* C16: while the connection stays open, comm_loop writes every frame _send_cmd
\* has queued: the iteration that finds the queue non-empty writes its head,
\* takes it off and sets last_ping to its time; the queue only grows at its end
\* and shrinks at its head; and a queued frame does not stay queued for ever.
C16_QueuedFramesWritten ==
    /\ [][(cpc = "write" /\ cpc' = "read" /\ _to_stim # <<>>) =>
            /\ written' = [frame |-> Head(_to_stim), t |-> clock, ping |-> FALSE]
            /\ _to_stim' = Tail(_to_stim)
            /\ last_ping' = clock]_vars
    /\ [][\/ _to_stim' = _to_stim
          \/ _to_stim # <<>> /\ _to_stim' = Tail(_to_stim)
          \/ _to_stim' # <<>> /\ AllButLast(_to_stim') = _to_stim]_vars
    /\ []((_to_stim # <<>> /\ clock + SleepTime <= MaxTime)
            => <>(\/ _to_stim = <<>>
                  \/ comm_exc = "SerialException"
                  \/ clock + SleepTime > MaxTime))

\* C17: once a read or a write on the connection has failed, comm_loop has
\* ended, it reads and writes no more, and the session no longer queues a
\* command: a request made after the failure fails with it.
C17_TransportFailureSurfaced ==
    /\ [](comm_exc = "SerialException" => cpc = "dead")
    /\ [][comm_exc = "SerialException" =>
            /\ written' = written
            /\ in_waiting' = in_waiting
            /\ extracted' = extracted]_vars
    /\ [][comm_exc = "SerialException" => _to_stim' = _to_stim]_vars

\* C18: every _wait_for_reply ends, as Matched or as TimedOut and in no other
\* way, and as TimedOut only when the timeout has elapsed since it began.
C18_WaitEndsMatchedOrTimedOut ==
    /\ [][(call # NoneRec /\ call' = NoneRec) =>
            outcome'.wait \in {"matched", "timeout"}]_vars
    /\ [][(call # NoneRec /\ call' = NoneRec /\ outcome'.wait = "timeout") =>
            (clock - call.start) >= timeout]_vars
    /\ []((call # NoneRec /\ call.start + timeout <= MaxTime)
            => <>(call = NoneRec \/ call.start + timeout > MaxTime))

\* Bit i of a byte.
Bit(v, i) == (v \div (2 ^ i)) % 2 = 1

\* C19: for every status byte 0..255 MagstimStatus reports standby, armed,
\* ready, coil_present, replace_coil, err, fatal_err and remote_control as bits
\* 0 to 7 of the byte, each whatever the others are.
C19_StatusPropertiesAreBits ==
    fn = "MagstimStatus" =>
        ret = [standby |-> Bit(arg[1], 0),
               armed |-> Bit(arg[1], 1),
               ready |-> Bit(arg[1], 2),
               coil_present |-> Bit(arg[1], 3),
               replace_coil |-> Bit(arg[1], 4),
               err |-> Bit(arg[1], 5),
               fatal_err |-> Bit(arg[1], 6),
               remote_control |-> Bit(arg[1], 7)]

\* C19's case: 0x89 reports standby, coil_present and remote_control and none
\* of the others.
C19_Status0x89 ==
    /\ fn = "MagstimStatus"
    /\ arg = <<137>>
    /\ ret.standby /\ ret.coil_present /\ ret.remote_control
    /\ ~ret.armed /\ ~ret.ready /\ ~ret.replace_coil /\ ~ret.err /\ ~ret.fatal_err

\* C20: the Response _enable_remote_control returns is the reply to the command
\* this call queued, never the reply to a frame comm_loop wrote before the call
\* began: when the call returns it, comm_loop has written the call's command
\* (the last one queued) to the connection.
C20_ReplyIsToOwnCommand ==
    [][(/\ call # NoneRec
        /\ call.op = "_enable_remote_control"
        /\ call' = NoneRec
        /\ outcome'.wait = "matched")
       => _to_stim = <<>>]_vars

\* C21: an iteration of comm_loop writes at most one frame: it takes at most
\* one command off the queue, and it writes a keepalive only when it wrote no
\* command and more than ping_freq has passed since last_ping and since the
\* last write.
C21_OneWritePerIteration ==
    /\ [](nwritten <= 1)
    /\ [][(cpc = "write" /\ cpc' = "read") =>
            /\ _to_stim' = (IF _to_stim = <<>> THEN <<>> ELSE Tail(_to_stim))
            /\ nwritten' >= (IF _to_stim = <<>> THEN 0 ELSE 1)]_vars
    /\ [][(cpc = "write" /\ cpc' = "read" /\ written' # NoneRec
            /\ written' # written /\ written'.ping) =>
            /\ _to_stim = <<>>
            /\ (clock - last_ping) > ping_freq
            /\ written # NoneRec => (clock - written.t) > ping_freq]_vars

\* C21's case: the iteration that has just ended wrote a keepalive, one frame.
C21_IterationWroteKeepalive ==
    /\ cpc = "read"
    /\ written # NoneRec
    /\ written.ping
    /\ written.t + SleepTime = clock
    /\ nwritten = 1

\* The reply to the command the call in progress queued is on the inbound
\* queue: the command was the last frame written, the device has replied to it
\* and comm_loop has read and queued the reply.
OwnReplyQueued ==
    /\ _to_stim = <<>>
    /\ written # NoneRec
    /\ ~written.ping
    /\ answered = written.t
    /\ in_waiting = <<>>
    /\ buf = <<>>
    /\ _from_stim # <<>>
    /\ _from_stim[Len(_from_stim)] = reply_to(written.frame)

\* C22: the flush of armed and ready never takes the reply to the command the
\* same call has just queued off the inbound queue.
C22_FlushKeepsOwnReply ==
    [][(/\ call # NoneRec
        /\ call.op \in ArmedOps
        /\ call.phase = 0
        /\ OwnReplyQueued)
       => _from_stim' # <<>>]_vars

\* The bytes of a sequence of frames, one after the other.
RECURSIVE Flatten(_)
Flatten(fs) == IF fs = <<>> THEN <<>> ELSE Head(fs) \o Flatten(Tail(fs))

\* C23: whatever the reads the device's frames arrive in, comm_loop removes no
\* byte of a frame: the frames queued, the bytes buffered, the bytes waiting at
\* the port and the bytes still to come are the device's frames.
C23_StripKeepsFrameBytes ==
    cpc \in {"read", "write"} =>
        Flatten(extracted) \o buf \o in_waiting \o arg = ret.stream

\* C24: _send_cmd before connect has started the thread raises RuntimeError and
\* leaves the outbound queue, the debug log and the cached status as they were.
C24_SendBeforeConnectRaises ==
    [][(fn' = "_send_cmd" /\ _com_thread = None) =>
          /\ ret'.exc = "RuntimeError"
          /\ UNCHANGED <<_to_stim, _debug_log, _status>>]_vars

\* C24's case: a second _send_cmd on a session that never connected has raised,
\* with nothing queued and nothing logged.
C24_RaisedTwiceUnconnected ==
    /\ fn = "_send_cmd"
    /\ _com_thread = None
    /\ ncalls = 2
    /\ ret.exc = "RuntimeError"
    /\ _to_stim = <<>>
    /\ _debug_log = <<>>

====
